---- MODULE Spec2Model ----
(***************************************************************************)
(* Model of metargs (src/metargs/__init__.py): Option, which reads one     *)
(* configurable value from a config file, and ConfigBackedArgumentParser,  *)
(* which feeds the values read from the file to argparse as defaults and   *)
(* raises the deferred "missing required" errors after the flag parse.     *)
(*                                                                         *)
(* Python strings are sequences of one-character strings, so that          *)
(* startswith, split, strip, join and int() are computed, not assumed.     *)
(* Python values are tagged records, so that None, strings, integers,      *)
(* lists and exception objects can share one namespace.                    *)
(***************************************************************************)
EXTENDS Integers, Sequences, FiniteSets, TLC

----------------------------------------------------------------------------
(* Python values *)

NoneV == [t |-> "none"]
StrV(s) == [t |-> "str", s |-> s]
IntV(n) == [t |-> "int", n |-> n]
BoolV(b) == [t |-> "bool", b |-> b]
ListV(l) == [t |-> "list", l |-> l]

(* An exception being raised (as opposed to an exception object held as a value) *)
Raise(cls, msg) == [t |-> "raise", cls |-> cls, msg |-> msg]
IsRaise(r) == r.t = "raise"

(* bool(value), as used by "if self.required" and "self.args or self.options" *)
Truthy(v) ==
    CASE v.t = "none" -> FALSE
      [] v.t = "bool" -> v.b
      [] v.t = "str" -> Len(v.s) > 0
      [] v.t = "int" -> v.n # 0
      [] v.t = "list" -> Len(v.l) > 0
      [] OTHER -> TRUE

----------------------------------------------------------------------------
(* Python string operations *)

Whitespace == {" "}

StartsWith(s, c) == Len(s) > 0 /\ s[1] = c

Contains(s, c) == \E i \in 1..Len(s) : s[i] = c

(* indices where sep occurs in s *)
Occurrences(s, sep) ==
    {i \in 1..(Len(s) - Len(sep) + 1) : SubSeq(s, i, i + Len(sep) - 1) = sep}

Min(S) == CHOOSE x \in S : \A y \in S : x <= y

RECURSIVE SplitSep(_, _)
(* s.split(sep) for a non-empty sep: always at least one piece *)
SplitSep(s, sep) ==
    IF Occurrences(s, sep) = {}
    THEN <<s>>
    ELSE LET i == Min(Occurrences(s, sep))
         IN <<SubSeq(s, 1, i - 1)>> \o SplitSep(SubSeq(s, i + Len(sep), Len(s)), sep)

RECURSIVE LStrip(_)
LStrip(s) == IF Len(s) > 0 /\ s[1] \in Whitespace THEN LStrip(Tail(s)) ELSE s

RECURSIVE RStrip(_)
RStrip(s) ==
    IF Len(s) > 0 /\ s[Len(s)] \in Whitespace THEN RStrip(SubSeq(s, 1, Len(s) - 1)) ELSE s

(* s.strip() *)
Strip(s) == RStrip(LStrip(s))

RECURSIVE SplitWs(_)
(* s.split(None): runs of whitespace separate, empty pieces are dropped *)
SplitWs(s) ==
    LET r == LStrip(s)
        ends == {i \in 1..Len(r) : r[i] \in Whitespace}
    IN IF Len(r) = 0 THEN <<>>
       ELSE IF ends = {} THEN <<r>>
       ELSE <<SubSeq(r, 1, Min(ends) - 1)>> \o SplitWs(SubSeq(r, Min(ends), Len(r)))

(* val.split(split_char) *)
Split(s, split_char) ==
    IF split_char.t = "none" THEN SplitWs(s) ELSE SplitSep(s, split_char.s)

RECURSIVE Join(_, _)
(* sep.join(parts) *)
Join(sep, parts) ==
    IF Len(parts) = 0 THEN <<>>
    ELSE IF Len(parts) = 1 THEN parts[1]
    ELSE parts[1] \o sep \o Join(sep, Tail(parts))

Digits == {"0", "1", "2", "3", "4", "5", "6", "7", "8", "9"}

DigitVal(c) ==
    CASE c = "0" -> 0 [] c = "1" -> 1 [] c = "2" -> 2 [] c = "3" -> 3 [] c = "4" -> 4
      [] c = "5" -> 5 [] c = "6" -> 6 [] c = "7" -> 7 [] c = "8" -> 8 [] c = "9" -> 9

RECURSIVE DigitsVal(_)
DigitsVal(s) ==
    IF Len(s) = 0 THEN 0 ELSE 10 * DigitsVal(SubSeq(s, 1, Len(s) - 1)) + DigitVal(s[Len(s)])

(* int(s): surrounding whitespace is ignored, anything but digits is a ValueError *)
PyInt(s) ==
    LET d == Strip(s)
    IN IF Len(d) > 0 /\ \A i \in 1..Len(d) : d[i] \in Digits
       THEN IntV(DigitsVal(d))
       ELSE Raise("ValueError", [text |-> "invalid literal for int()", args |-> <<s>>])

RECURSIVE Replace(_, _, _)
(* s.replace(a, b) for single characters *)
Replace(s, a, b) ==
    IF Len(s) = 0 THEN <<>>
    ELSE <<IF s[1] = a THEN b ELSE s[1]>> \o Replace(Tail(s), a, b)

RECURSIVE LStripChar(_, _)
(* s.lstrip(c) *)
LStripChar(s, c) == IF Len(s) > 0 /\ s[1] = c THEN LStripChar(Tail(s), c) ELSE s

----------------------------------------------------------------------------
(* str(value) and repr(value), for the values that reach an error message *)

RECURSIVE IntToStr(_)
IntToStr(n) ==
    LET d == <<"0", "1", "2", "3", "4", "5", "6", "7", "8", "9">>
    IN IF n < 10 THEN <<d[n + 1]>> ELSE IntToStr(n \div 10) \o <<d[(n % 10) + 1]>>

PyStr(v) ==
    CASE v.t = "str" -> v.s
      [] v.t = "int" -> IntToStr(v.n)
      [] OTHER -> <<"?">>

Repr(v) == IF v.t = "str" THEN <<"'">> \o v.s \o <<"'">> ELSE PyStr(v)

----------------------------------------------------------------------------
(* separate_names and class Option *)

RECURSIVE separate_names(_)
(* Returns <<configs, args, options>>: a name is an option if it starts    *)
(* with '-', a config path if it contains ':', positional otherwise.       *)
separate_names(names) ==
    IF Len(names) = 0 THEN << <<>>, <<>>, <<>> >>
    ELSE LET name == names[1]
             rest == separate_names(Tail(names))
         IN IF StartsWith(name, "-")
            THEN <<rest[1], rest[2], <<name>> \o rest[3]>>
            ELSE IF Contains(name, ":")
            THEN << <<SplitSep(name, <<":">>)>> \o rest[1], rest[2], rest[3]>>
            ELSE <<rest[1], <<name>> \o rest[2], rest[3]>>

(* Option._defaults *)
_defaults == [action |-> StrV(<<"s", "t", "o", "r", "e">>), split_char |-> StrV(<<",">>)]

(* read_with_default(key) inside Option.__init__ *)
read_with_default(kwargs, key) ==
    IF key \in DOMAIN kwargs THEN kwargs[key]
    ELSE IF key \in DOMAIN _defaults THEN _defaults[key]
    ELSE NoneV

(* Option.__init__: classify the names, read each keyword with its default *)
Option(names, kwargs) ==
    LET sep == separate_names(names)
    IN [action |-> read_with_default(kwargs, "action"),
        nargs |-> read_with_default(kwargs, "nargs"),
        const |-> read_with_default(kwargs, "const"),
        default |-> read_with_default(kwargs, "default"),
        type |-> read_with_default(kwargs, "type"),
        choices |-> read_with_default(kwargs, "choices"),
        required |-> read_with_default(kwargs, "required"),
        help |-> read_with_default(kwargs, "help"),
        metavar |-> read_with_default(kwargs, "metavar"),
        dest |-> read_with_default(kwargs, "dest"),
        split_char |-> read_with_default(kwargs, "split_char"),
        config_paths |-> sep[1],
        args |-> sep[2],
        options |-> sep[3]]

(* Option.__eq__ *)
Option_eq(self, other) ==
    /\ other.action = self.action
    /\ other.nargs = self.nargs
    /\ other.const = self.const
    /\ other.default = self.default
    /\ other.type = self.type
    /\ other.choices = self.choices
    /\ other.required = self.required
    /\ other.help = self.help
    /\ other.metavar = self.metavar
    /\ other.dest = self.dest
    /\ other.split_char = self.split_char
    /\ other.config_paths = self.config_paths
    /\ other.args = self.args
    /\ other.options = self.options

(* The callables a type= argument stands for in this model *)
TypeInt == [t |-> "callable", f |-> "int"]
TypeNotCallable == StrV(<<"i", "n", "t">>)

(* self.type(value); value is a raw string *)
CallType(type, value) == IF type.f = "int" THEN PyInt(value.s) ELSE value

(* [':'.join(cp) for cp in self.config_paths] *)
FormatPaths(config_paths) == [i \in 1..Len(config_paths) |-> Join(<<":">>, config_paths[i])]

(* Option._get_value: returns the typed value, or the exception raised *)
_get_value(self, value) ==
    IF self.type.t = "none" THEN value
    ELSE IF self.type.t # "callable"
    THEN Raise("ConfigArgumentError",
               [text |-> "type is not callable for Option",
                args |-> <<Join(<<" ">>, self.args \o self.options \o FormatPaths(self.config_paths))>>])
    ELSE CallType(self.type, value)

(* value in self.choices *)
InList(value, list) == \E i \in 1..Len(list.l) : list.l[i] = value

(* _check_value accepting every value *)
_check_value_ok_any(self, value) == TRUE

(* Option._check_value: TRUE when the value is allowed *)
_check_value_ok(self, value) == self.choices.t = "none" \/ InList(value, self.choices)

(* Option._check_value: the exception raised for a value that is not allowed *)
_check_value_error(self, value) ==
    Raise("ConfigArgumentError",
          [text |-> "invalid choice",
           args |-> <<PyStr(value),
                      Join(<<",", " ">>, [i \in 1..Len(self.choices.l) |-> Repr(self.choices.l[i])])>>])

----------------------------------------------------------------------------
(* SafeConfigParser: a mapping from <<section, name>> to the raw string *)

EmptyConfig == [p \in {} |-> <<>>]

has_option(config_parser, section, name) == <<section, name>> \in DOMAIN config_parser

get(config_parser, section, name) == config_parser[<<section, name>>]

(* config.read of one file's contents: a key read later replaces the key read earlier *)
MergeConfig(config, file) ==
    [p \in DOMAIN config \cup DOMAIN file |-> IF p \in DOMAIN file THEN file[p] ELSE config[p]]

----------------------------------------------------------------------------
(* Option: reading the value from the config file *)

(* MissingConfigArgumentError(option), an exception object whose message    *)
(* names the option's config paths                                          *)
MissingConfigArgumentError(option) ==
    [t |-> "exc", cls |-> "MissingConfigArgumentError",
     msg |-> [text |-> "No configuration value found for required Option",
              args |-> <<Join(<<",", " ">>, FormatPaths(option.config_paths))>>]]

(* isinstance(value, MissingConfigArgumentError) *)
IsMissing(value) == value.t = "exc" /\ value.cls = "MissingConfigArgumentError"

(* _read_config_paths taking the last config path that is present *)
FirstPresent_last(paths, config_parser, i) ==
    LET present == {j \in i..Len(paths) : has_option(config_parser, paths[j][1], paths[j][2])}
    IN IF present = {} THEN 0 ELSE CHOOSE j \in present : \A k \in present : k <= j

RECURSIVE FirstPresent(_, _, _)
(* the loop of _read_config_paths, from path number i on *)
FirstPresent(paths, config_parser, i) ==
    IF i > Len(paths) THEN 0
    ELSE IF has_option(config_parser, paths[i][1], paths[i][2]) THEN i
    ELSE FirstPresent(paths, config_parser, i + 1)

(* Option._read_config_paths: the first config path that the file has *)
_read_config_paths(self, config_parser) ==
    LET i == FirstPresent(self.config_paths, config_parser, 1)
    IN IF i = 0
       THEN [t |-> "read", val |-> NoneV, section |-> NoneV, name |-> NoneV]
       ELSE [t |-> "read", val |-> StrV(get(config_parser, self.config_paths[i][1], self.config_paths[i][2])),
             section |-> StrV(self.config_paths[i][1]),
             name |-> StrV(self.config_paths[i][2])]

(* a call whose result the code goes on with: the exception it raised        *)
(* propagates, else the rest of the code, F, runs with what it returned      *)
Then(result, F(_)) == IF IsRaise(result) THEN result ELSE F(result)

(* a list built element by element: the list, or the first exception raised *)
(* while an element was computed                                            *)
Collect(results) ==
    LET raised == {i \in 1..Len(results) : IsRaise(results[i])}
    IN IF raised = {} THEN ListV(results) ELSE results[Min(raised)]

(* for v in value: self._check_value(v); the list when every value passes *)
CheckEach(self, values) ==
    LET bad == {i \in 1..Len(values) : ~_check_value_ok(self, values[i])}
    IN IF bad = {} THEN ListV(values) ELSE _check_value_error(self, values[Min(bad)])

(* len(value) != int(self.nargs), then the check of each value *)
CheckCount(self, r, values, count) ==
    IF Len(values) # count.n
    THEN Raise("ConfigArgumentError",
               [text |-> "Require exactly n values",
                args |-> <<PyStr(self.nargs), r.section.s, r.name.s>>])
    ELSE CheckEach(self, values)

(* int(self.nargs) *)
NargsCount(nargs) == IF nargs.t = "int" THEN nargs ELSE PyInt(nargs.s)

(* The nargs branch of from_config, lines 166-183 *)
from_config_list(self, r) ==
    LET tokens == Split(r.val.s, self.split_char)
    IN Then(Collect([i \in 1..Len(tokens) |-> _get_value(self, StrV(Strip(tokens[i])))]),
            LAMBDA value :
                IF self.nargs = StrV(<<"+">>)
                THEN IF Len(value.l) = 0
                     THEN Raise("ConfigArgumentError",
                                [text |-> "Require at least one value",
                                 args |-> <<r.section.s, r.name.s>>])
                     ELSE CheckEach(self, value.l)
                ELSE IF self.nargs = StrV(<<"*">>) THEN CheckEach(self, value.l)
                ELSE Then(NargsCount(self.nargs),
                          LAMBDA count : CheckCount(self, r, value.l, count)))

(* The scalar branch of from_config, lines 184-186 *)
from_config_scalar(self, r) ==
    Then(_get_value(self, r.val),
         LAMBDA value : IF ~_check_value_ok(self, value) THEN _check_value_error(self, value)
                        ELSE value)

(* from_config raising the missing-required error at once *)
from_config_eager(self, config_parser) ==
    LET missing == MissingConfigArgumentError(self)
    IN Then(_read_config_paths(self, config_parser),
            LAMBDA r :
                IF r.val = NoneV
                THEN IF Truthy(self.required) THEN Raise(missing.cls, missing.msg)
                     ELSE self.default
                ELSE IF self.nargs # NoneV THEN from_config_list(self, r)
                ELSE from_config_scalar(self, r))

(* Option.from_config: the value, the MissingConfigArgumentError object to  *)
(* be raised later, or the exception raised now                            *)
from_config(self, config_parser) ==
    Then(_read_config_paths(self, config_parser),
         LAMBDA r :
             IF r.val = NoneV
             THEN IF Truthy(self.required) THEN MissingConfigArgumentError(self)
                  ELSE self.default
             ELSE IF self.nargs # NoneV THEN from_config_list(self, r)
             ELSE from_config_scalar(self, r))

----------------------------------------------------------------------------
(* argparse, as far as this program uses it: actions of kind 'store',       *)
(* option strings matched exactly, values given as separate tokens.         *)

(* Namespace(): a mapping from attribute name to value *)
EmptyNamespace == [k \in {} |-> NoneV]

hasattr(namespace, name) == name \in DOMAIN namespace

setattr(namespace, name, value) ==
    [k \in DOMAIN namespace \cup {name} |-> IF k = name THEN value ELSE namespace[k]]

(* parser.error(...): usage message and exit status 2 *)
UsageError(text, arg) == Raise("SystemExit", [text |-> text, args |-> <<arg>>])

HelpStrings == << <<"-", "h">>, <<"-", "-", "h", "e", "l", "p">> >>

(* ArgumentParser(add_help=...) *)
ArgumentParser(add_help) == [t |-> "parser", actions |-> <<>>, add_help |-> add_help]

SeqToSet(seq) == {seq[i] : i \in 1..Len(seq)}

(* every option string the parser already knows *)
KnownStrings(parser) ==
    UNION {SeqToSet(parser.actions[i].option_strings) : i \in 1..Len(parser.actions)}
        \cup (IF parser.add_help THEN SeqToSet(HelpStrings) ELSE {})

(* the dest argparse derives for an optional: the first long option string, *)
(* else the first one, without the leading dashes and with '-' as '_'       *)
OptionalDest(option_strings) ==
    LET long == {i \in 1..Len(option_strings) :
                    Len(option_strings[i]) > 1 /\ option_strings[i][2] = "-"}
        first == IF long = {} THEN option_strings[1] ELSE option_strings[Min(long)]
    IN Replace(LStripChar(first, "-"), "-", "_")

kwarg(kwargs, key) == IF key \in DOMAIN kwargs THEN kwargs[key] ELSE NoneV

(* parser.add_argument(names, kwargs): the parser with the new action,       *)
(* or the exception argparse raises for the declaration                      *)
add_argument(parser, names, kwargs) ==
    LET positional == Len(names) = 1 /\ ~StartsWith(names[1], "-")
        dest == IF kwarg(kwargs, "dest") # NoneV THEN kwarg(kwargs, "dest").s
                ELSE IF positional THEN names[1] ELSE OptionalDest(names)
        action == [option_strings |-> IF positional THEN <<>> ELSE names,
                   dest |-> dest,
                   nargs |-> kwarg(kwargs, "nargs"),
                   default |-> kwarg(kwargs, "default"),
                   type |-> kwarg(kwargs, "type"),
                   choices |-> kwarg(kwargs, "choices"),
                   required |-> IF positional THEN TRUE ELSE Truthy(kwarg(kwargs, "required"))]
    IN IF positional /\ "required" \in DOMAIN kwargs
       THEN Raise("TypeError", [text |-> "'required' is an invalid argument for positionals",
                                args |-> <<names[1]>>])
       ELSE IF ~positional /\ \E i \in 1..Len(names) : ~StartsWith(names[i], "-")
       THEN Raise("ValueError", [text |-> "invalid option string", args |-> names])
       ELSE IF ~positional /\ SeqToSet(names) \cap KnownStrings(parser) # {}
       THEN Raise("ArgumentError", [text |-> "conflicting option string", args |-> names])
       ELSE [parser EXCEPT !.actions = Append(@, action)]

(* argparse's _get_value and _check_value for one command-line string *)
ConvertArg(action, raw) ==
    LET value == IF action.type = NoneV THEN StrV(raw) ELSE CallType(action.type, StrV(raw))
    IN IF IsRaise(value) THEN UsageError("invalid value", raw)
       ELSE IF action.choices # NoneV /\ ~InList(value, action.choices)
       THEN UsageError("invalid choice", raw)
       ELSE value

(* how many of the next tokens are arguments (do not start with '-') *)
RECURSIVE ArgRun(_, _)
ArgRun(argv, i) ==
    IF i > Len(argv) \/ StartsWith(argv[i], "-") THEN 0 ELSE 1 + ArgRun(argv, i + 1)

(* how many of the available argument tokens an action takes; -1: too few *)
Take(nargs, available) ==
    CASE nargs = NoneV -> IF available >= 1 THEN 1 ELSE -1
      [] nargs = StrV(<<"*">>) -> available
      [] nargs = StrV(<<"+">>) -> IF available >= 1 THEN available ELSE -1
      [] OTHER -> IF available >= nargs.n THEN nargs.n ELSE -1

(* the value an action stores for the tokens argv[from..from+n-1] *)
StoreValue(action, argv, from, n) ==
    Then(Collect([j \in 1..n |-> ConvertArg(action, argv[from + j - 1])]),
         LAMBDA values : IF action.nargs = NoneV THEN values.l[1] ELSE values)

(* the action that has the option string, or 0 *)
ActionFor(parser, token) ==
    LET m == {i \in 1..Len(parser.actions) : token \in SeqToSet(parser.actions[i].option_strings)}
    IN IF m = {} THEN 0 ELSE Min(m)

(* the first positional action that has not been filled, or 0 *)
NextPositional(parser, seen) ==
    LET m == {i \in 1..Len(parser.actions) :
                 parser.actions[i].option_strings = <<>> /\ i \notin seen}
    IN IF m = {} THEN 0 ELSE Min(m)

RECURSIVE ConsumeArgs(_, _, _, _, _, _)
(* the token loop of parse_known_args, from token i on; st is the namespace, *)
(* the set of actions seen and the unrecognized tokens so far                *)
ConsumeArgs(parser, argv, i, namespace, seen, extras) ==
    IF i > Len(argv)
    THEN [t |-> "parsed", namespace |-> namespace, seen |-> seen, extras |-> extras]
    ELSE LET token == argv[i]
             flag == StartsWith(token, "-")
             a == IF flag THEN ActionFor(parser, token) ELSE NextPositional(parser, seen)
             from == IF flag THEN i + 1 ELSE i
             n == IF a = 0 THEN 0 ELSE Take(parser.actions[a].nargs, ArgRun(argv, from))
         IN IF flag /\ parser.add_help /\ token \in SeqToSet(HelpStrings)
            THEN Raise("SystemExit", [text |-> "help", args |-> <<token>>])
            ELSE IF a = 0
            THEN ConsumeArgs(parser, argv, i + 1, namespace, seen, Append(extras, token))
            ELSE IF n < 0 THEN UsageError("expected argument", token)
            ELSE Then(StoreValue(parser.actions[a], argv, from, n),
                      LAMBDA value :
                          ConsumeArgs(parser, argv, from + n,
                                      setattr(namespace, parser.actions[a].dest, value),
                                      seen \cup {a}, extras))

RECURSIVE SetDefaults(_, _, _)
(* "add any action defaults that aren't present", from action i on *)
SetDefaults(parser, namespace, i) ==
    IF i > Len(parser.actions) THEN namespace
    ELSE SetDefaults(parser,
                     IF hasattr(namespace, parser.actions[i].dest) THEN namespace
                     ELSE setattr(namespace, parser.actions[i].dest, parser.actions[i].default),
                     i + 1)

RECURSIVE FinishActions(_, _, _, _)
(* after the tokens, for every action not seen, from action i on: a required *)
(* action is an error, a string default is converted with the action's type  *)
FinishActions(parser, namespace, seen, i) ==
    IF i > Len(parser.actions) THEN [t |-> "finished", namespace |-> namespace]
    ELSE LET action == parser.actions[i]
             converted == IF action.type = NoneV THEN action.default
                          ELSE CallType(action.type, action.default)
         IN IF i \in seen THEN FinishActions(parser, namespace, seen, i + 1)
            ELSE IF action.required
            THEN UsageError("argument is required",
                            IF action.option_strings = <<>> THEN action.dest
                            ELSE action.option_strings[1])
            ELSE IF action.default.t = "str" /\ namespace[action.dest] = action.default
            THEN IF IsRaise(converted) THEN UsageError("invalid value", action.default.s)
                 ELSE FinishActions(parser, setattr(namespace, action.dest, converted), seen, i + 1)
            ELSE FinishActions(parser, namespace, seen, i + 1)

(* parser.parse_known_args(args, namespace): [namespace, extras] or the exit *)
ArgParse_parse_known_args(parser, args, namespace) ==
    Then(ConsumeArgs(parser, args, 1, SetDefaults(parser, namespace, 1), {}, <<>>),
         LAMBDA consumed :
             Then(FinishActions(parser, consumed.namespace, consumed.seen, 1),
                  LAMBDA finished : [t |-> "parsed", namespace |-> finished.namespace,
                                     extras |-> consumed.extras]))

(* parser.parse_args(args, namespace): unrecognized arguments are an error *)
ArgParse_parse_args(parser, args, namespace) ==
    Then(ArgParse_parse_known_args(parser, args, namespace),
         LAMBDA r : IF Len(r.extras) > 0 THEN UsageError("unrecognized arguments", r.extras[1])
                    ELSE r)

----------------------------------------------------------------------------
(* Option.add_to_parser *)

(* add_to_parser passing the declared default instead of the file value *)
ParserKwargs_static_default(self, from_config_value) ==
    LET all == [action |-> self.action, nargs |-> self.nargs, const |-> self.const,
                default |-> self.default, type |-> self.type, choices |-> self.choices,
                required |-> self.required, help |-> self.help, metavar |-> self.metavar,
                dest |-> self.dest]
    IN [k \in {key \in DOMAIN all : all[key] # NoneV} |-> all[k]]

(* the keyword arguments add_if_not_none keeps *)
ParserKwargs(self, from_config_value) ==
    LET all == [action |-> self.action, nargs |-> self.nargs, const |-> self.const,
                default |-> from_config_value, type |-> self.type, choices |-> self.choices,
                required |-> self.required, help |-> self.help, metavar |-> self.metavar,
                dest |-> self.dest]
    IN [k \in {key \in DOMAIN all : all[key] # NoneV} |-> all[k]]

(* add_to_parser recording a config-only option under its first path only *)
SetPaths_first_only(config_paths, namespace, value, i) ==
    IF Len(config_paths) = 0 THEN namespace
    ELSE setattr(namespace, Join(<<"_">>, config_paths[1]), value)

RECURSIVE SetPaths(_, _, _, _)
(* setattr(namespace, "_".join(path), from_config) for the paths from i on *)
SetPaths(config_paths, namespace, value, i) ==
    IF i > Len(config_paths) THEN namespace
    ELSE SetPaths(config_paths, setattr(namespace, Join(<<"_">>, config_paths[i]), value),
                  value, i + 1)

(* Option.add_to_parser: the parser and the namespace afterwards, or the     *)
(* exception add_argument raises                                            *)
add_to_parser(self, argparser, from_config_value, namespace) ==
    IF ~(Len(self.args) > 0 \/ Len(self.options) > 0)
    THEN [t |-> "added", parser |-> argparser,
          namespace |-> SetPaths(self.config_paths, namespace, from_config_value, 1)]
    ELSE Then(add_argument(argparser, self.args \o self.options,
                           ParserKwargs(self, from_config_value)),
              LAMBDA added : [t |-> "added", parser |-> added, namespace |-> namespace])

----------------------------------------------------------------------------
(* ConfigBackedArgumentParser.  self is the record of its attributes; fs is  *)
(* the file system, a mapping from path to the contents of a config file.    *)

ConfigDest == <<"c", "o", "n", "f", "i", "g">>

(* _add_config_arg *)
_add_config_arg(self, parser) ==
    add_argument(parser, <<self.config_short_flag, self.config_long_flag>>,
                 [default |-> self.def_cfg_loc, dest |-> StrV(ConfigDest)])

(* config.read(path): a file that does not exist is skipped *)
read(config, fs, path) == IF path \in DOMAIN fs THEN MergeConfig(config, fs[path]) ELSE config

RECURSIVE ReadAll(_, _, _, _)
(* for cfg in self.additional_configs: config.read(cfg) *)
ReadAll(config, fs, paths, i) ==
    IF i > Len(paths) THEN config ELSE ReadAll(read(config, fs, paths[i]), fs, paths, i + 1)

(* _read_config_args reading the additional files before the primary one *)
LoadConfig_primary_last(self, fs, primary) ==
    LET extra == ReadAll(EmptyConfig, fs, self.additional_configs, 1)
    IN IF primary # NoneV THEN read(extra, fs, primary.s) ELSE extra

(* the SafeConfigParser of _read_config_args once every file is read *)
LoadConfig(self, fs, primary) ==
    ReadAll(IF primary # NoneV THEN read(EmptyConfig, fs, primary.s) ELSE EmptyConfig,
            fs, self.additional_configs, 1)

(* _read_config_args, lines 261-270: the SafeConfigParser with the file the  *)
(* config flag names and the additional files read, or the flag parser's exit *)
ReadConfigFiles(self, fs, args) ==
    Then(_add_config_arg(self, ArgumentParser(FALSE)),
         LAMBDA flag_parser :
             Then(ArgParse_parse_known_args(flag_parser, args, EmptyNamespace),
                  LAMBDA opts : [t |-> "config",
                                 config |-> LoadConfig(self, fs, opts.namespace[ConfigDest])]))

(* _read_config_args, lines 272-276: the value read for each option, in the  *)
(* order of self.options, or the exception raised                            *)
_read_config_args(self, fs, args) ==
    Then(ReadConfigFiles(self, fs, args),
         LAMBDA read_files :
             Then(Collect([i \in 1..Len(self.options) |->
                              from_config(self.options[i], read_files.config)]),
                  LAMBDA config_vals : [t |-> "config_vals", vals |-> config_vals.l]))

RECURSIVE AddEach(_, _, _, _, _)
(* the loop of _add_options, from option i on *)
AddEach(options, config_vals, parser, namespace, i) ==
    IF i > Len(options) THEN [t |-> "setup", parser |-> parser, namespace |-> namespace]
    ELSE Then(add_to_parser(options[i], parser, config_vals[i], namespace),
              LAMBDA added :
                  AddEach(options, config_vals, added.parser, added.namespace, i + 1))

(* _add_options *)
_add_options(self, fs, parser, args, namespace) ==
    Then(_read_config_args(self, fs, args),
         LAMBDA config_vals : AddEach(self.options, config_vals.vals, parser, namespace, 1))

(* _setup_parser: the parser with every flag registered and the namespace    *)
(* holding the config-only options                                          *)
_setup_parser(self, fs, parser, args) ==
    Then(_add_config_arg(self, parser),
         LAMBDA with_config : _add_options(self, fs, with_config, args, EmptyNamespace))

(* _check_required_config: the exceptions it may raise; which one comes      *)
(* first depends on the iteration order of the namespace's dictionary        *)
_check_required_config(namespace) ==
    {Raise(namespace[k].cls, namespace[k].msg) : k \in {a \in DOMAIN namespace : IsMissing(namespace[a])}}

(* the SafeConfigParser a call has built, empty when it exited before *)
ConfigRead(read_files) == IF IsRaise(read_files) THEN EmptyConfig ELSE read_files.config

(* parser.parse_args(args, namespace) or parser.parse_known_args(args, namespace) *)
ParseWith(setup, args, strict) ==
    IF strict THEN ArgParse_parse_args(setup.parser, args, setup.namespace)
    ELSE ArgParse_parse_known_args(setup.parser, args, setup.namespace)

(* after the parse: the exit of argparse, an exception of                    *)
(* _check_required_config, or the value returned                             *)
Results(parsed, keep_rest) ==
    IF IsRaise(parsed) THEN {parsed}
    ELSE IF _check_required_config(parsed.namespace) # {}
    THEN _check_required_config(parsed.namespace)
    ELSE {[t |-> "returned", namespace |-> parsed.namespace,
           rest |-> IF keep_rest THEN parsed.extras ELSE <<>>]}

(* the results a call may have once _setup_parser has run, each with the flag *)
(* parser and the SafeConfigParser the call built                             *)
Outcomes(setup, read_config, parser, args, strict, keep_rest) ==
    IF IsRaise(setup)
    THEN {[outcome |-> setup, parser |-> parser, config |-> read_config]}
    ELSE {[outcome |-> r, parser |-> setup.parser, config |-> read_config] :
             r \in Results(ParseWith(setup, args, strict), keep_rest)}

(* the three entry points *)
Resolve(self, fs, args, add_help, strict, keep_rest) ==
    Outcomes(_setup_parser(self, fs, ArgumentParser(add_help), args),
             ConfigRead(ReadConfigFiles(self, fs, args)),
             ArgumentParser(add_help), args, strict, keep_rest)

(* append_option without the membership test *)
append_option_unchecked(options, option) == Append(options, option)

(* append_option: the new self.options *)
append_option(options, option) ==
    IF ~\E i \in 1..Len(options) : Option_eq(options[i], option)
    THEN Append(options, option)
    ELSE options

RECURSIVE extend_options(_, _)
(* extend_options: the new self.options *)
extend_options(options, new) ==
    IF Len(new) = 0 THEN options
    ELSE extend_options(IF ~\E i \in 1..Len(options) : Option_eq(options[i], new[1])
                        THEN Append(options, new[1])
                        ELSE options,
                        Tail(new))

----------------------------------------------------------------------------
(* Bounds and the inputs of the model *)

MaxOptions == 2
MaxConfigs == 1

True == BoolV(TRUE)

SecS == <<"s">>
SecT == <<"t">>
KeyK == <<"k">>

(* option names *)
Name_s_k == <<"s", ":", "k">>
Name_t_k == <<"t", ":", "k">>
Name_s_r == <<"s", ":", "r">>
Name_s_q == <<"s", ":", "q">>
Name_s_h == <<"s", ":", "h">>
Name_t_h == <<"t", ":", "h">>
Name_s_n == <<"s", ":", "n">>
Flag_x == <<"-", "-", "x">>
Flag_req == <<"-", "-", "r", "e", "q">>
Flag_ch == <<"-", "-", "c", "h">>
Flag_n == <<"-", "n">>
Flag_c == <<"-", "c">>
Flag_config == <<"-", "-", "c", "o", "n", "f", "i", "g">>
Flag_zz == <<"-", "-", "z", "z">>
Flag_h == <<"-", "h">>

(* the options declared in the model *)
OptX == Option(<<Name_s_k, Flag_x>>, [default |-> StrV(<<"d">>)])
OptReq == Option(<<Name_s_r, Flag_req>>, [required |-> True])
OptQ == Option(<<Name_s_q>>, [required |-> True])
OptH == Option(<<Name_s_h, Name_t_h>>, [default |-> StrV(<<"d">>)])
OptCh == Option(<<Flag_ch, Name_s_k>>,
                [choices |-> ListV(<<StrV(<<"a">>), StrV(<<"c">>)>>), default |-> StrV(<<"z">>)])
OptN == Option(<<Name_s_n, Flag_n>>,
               [nargs |-> StrV(<<"*">>), type |-> TypeInt, choices |-> ListV(<<IntV(1), IntV(2)>>)])

OptionUniverse == {OptX, OptReq, OptQ, OptH, OptCh, OptN}

ExtendUniverse ==
    {<<a>> : a \in OptionUniverse} \cup {<<a, b>> : a \in OptionUniverse, b \in OptionUniverse}

(* config files; PathM names no file *)
PathA == <<"a">>
PathB == <<"b">>
PathC == <<"c">>
PathM == <<"m">>

FileA ==
    [p \in {<<SecS, KeyK>>, <<SecS, <<"r">>>>, <<SecS, <<"q">>>>, <<SecT, <<"h">>>>, <<SecS, <<"n">>>>} |->
        CASE p[2] = KeyK -> <<"a">>
          [] p[2] = <<"r">> -> <<"r">>
          [] p[2] = <<"q">> -> <<>>
          [] p[2] = <<"h">> -> <<"t">>
          [] p[2] = <<"n">> -> <<"1", ",", " ", "2">>]

FileB ==
    [p \in {<<SecS, KeyK>>, <<SecS, <<"h">>>>, <<SecT, <<"h">>>>, <<SecS, <<"n">>>>} |->
        CASE p = <<SecS, KeyK>> -> <<"b">>
          [] p = <<SecS, <<"h">>>> -> <<"s">>
          [] p = <<SecT, <<"h">>>> -> <<"t">>
          [] p = <<SecS, <<"n">>>> -> <<"1", ",", "3">>]

FileC == [p \in {<<SecS, KeyK>>} |-> <<"c">>]

FileSystem ==
    [p \in {PathA, PathB, PathC} |-> IF p = PathA THEN FileA ELSE IF p = PathB THEN FileB ELSE FileC]

ConfigPaths == {PathB, PathC}

(* command lines *)
ArgvUniverse ==
    {<<>>,
     <<Flag_x, <<"c">>>>,
     <<Flag_req, <<"c">>>>,
     <<Flag_ch, <<"c">>>>,
     <<Flag_ch, <<"b">>>>,
     <<Flag_n, <<"2">>>>,
     <<Flag_n, <<"3">>>>,
     <<Flag_c, PathM>>,
     <<Flag_config, PathB, Flag_x, <<"c">>>>,
     <<Flag_zz>>,
     <<Flag_h>>,
     <<<<"v">>>>,
     <<Flag_req, <<"c">>, Flag_zz>>}

(* the options and config mappings from_config is applied to *)
FromConfigOptions ==
    {Option(names, [nargs |-> nargs, type |-> type, choices |-> choices, required |-> required,
                    split_char |-> split_char, default |-> StrV(<<"d">>)]) :
        names \in {<<Name_s_k, Flag_x>>, <<Name_s_k, Name_t_k>>, <<Name_t_k, Name_s_k, Flag_x>>},
        nargs \in {NoneV, StrV(<<"+">>), StrV(<<"*">>), IntV(2)},
        type \in {NoneV, TypeInt, TypeNotCallable},
        choices \in {NoneV, ListV(<<StrV(<<"a">>), IntV(1)>>)},
        required \in {NoneV, True},
        split_char \in {StrV(<<",">>), NoneV}}

Absent == <<"absent">>

RawValues == {<<>>, <<"a">>, <<"1">>, <<"a", ",", " ", "b">>, <<"1", ",", "2">>, <<"1", " ", "1">>}

FromConfigConfigs ==
    {[p \in {q \in {<<SecS, KeyK>>, <<SecT, KeyK>>} : (IF q[1] = SecS THEN sk ELSE tk) # Absent} |->
        IF p[1] = SecS THEN sk ELSE tk] :
        sk \in RawValues \cup {Absent}, tk \in {<<>>, <<"a">>, <<"1", ",", "2">>, Absent}}

----------------------------------------------------------------------------
(* The state machine *)

VARIABLES
    options,             \* ConfigBackedArgumentParser.options
    additional_configs,  \* ConfigBackedArgumentParser.additional_configs
    def_cfg_loc,         \* ConfigBackedArgumentParser.def_cfg_loc
    skipped,             \* how many options the latest step, an append or extend, found present
    call,                \* the latest parse call: entry point and args
    config,              \* the SafeConfigParser that call read (local of _read_config_args)
    parser,              \* the ArgumentParser that call built (local of parse_args)
    outcome,             \* what that call returned or raised
    fc_option,           \* from_config: self
    fc_config,           \* from_config: config_parser
    fc_result            \* from_config: what it returned or raised

vars == <<options, additional_configs, def_cfg_loc, skipped, call, config, parser, outcome,
          fc_option, fc_config, fc_result>>

resolver_vars == <<options, additional_configs, def_cfg_loc, skipped, call, config, parser, outcome>>
fc_vars == <<fc_option, fc_config, fc_result>>

(* call, config, parser and outcome record one call: they are cleared when   *)
(* the parser object changes, and a call is recorded when none is            *)
NoCall == [meth |-> "none", args |-> <<>>]
NoOutcome == [t |-> "none"]
NoParser == ArgumentParser(FALSE)

(* the attributes of the parser object *)
Self ==
    [def_cfg_loc |-> def_cfg_loc, config_short_flag |-> Flag_c, config_long_flag |-> Flag_config,
     options |-> options, additional_configs |-> additional_configs]

(* ConfigBackedArgumentParser.__init__ *)
InitResolver ==
    /\ options = <<>>
    /\ additional_configs = <<>>
    /\ skipped = 0
    /\ call = NoCall
    /\ config = EmptyConfig
    /\ parser = NoParser
    /\ outcome = NoOutcome

Init ==
    /\ InitResolver
    /\ def_cfg_loc \in {NoneV, StrV(PathA)}
    /\ fc_option = OptX
    /\ fc_config = EmptyConfig
    /\ fc_result = NoOutcome

ClearCall ==
    /\ call' = NoCall
    /\ config' = EmptyConfig
    /\ parser' = NoParser
    /\ outcome' = NoOutcome

AppendOption(option) ==
    /\ Len(options) < MaxOptions
    /\ options' = append_option(options, option)
    /\ skipped' = 1 + Len(options) - Len(options')
    /\ ClearCall
    /\ UNCHANGED <<additional_configs, def_cfg_loc, fc_vars>>

ExtendOptions(new) ==
    /\ Len(extend_options(options, new)) <= MaxOptions
    /\ options' = extend_options(options, new)
    /\ skipped' = Len(new) + Len(options) - Len(options')
    /\ ClearCall
    /\ UNCHANGED <<additional_configs, def_cfg_loc, fc_vars>>

(* the caller adds a path to self.additional_configs *)
AddConfig(path) ==
    /\ Len(additional_configs) < MaxConfigs
    /\ additional_configs' = Append(additional_configs, path)
    /\ ClearCall
    /\ skipped' = 0
    /\ UNCHANGED <<options, def_cfg_loc, fc_vars>>

(* one call of an entry point *)
Call(meth, args, add_help, strict, keep_rest) ==
    /\ call = NoCall
    /\ call' = [meth |-> meth, args |-> args]
    /\ \E r \in Resolve(Self, FileSystem, args, add_help, strict, keep_rest) :
          /\ outcome' = r.outcome
          /\ parser' = r.parser
          /\ config' = r.config
    /\ skipped' = 0
    /\ UNCHANGED <<options, additional_configs, def_cfg_loc, fc_vars>>

ParseArgs(args) == Call("parse_args", args, TRUE, TRUE, FALSE)

ParseKnownArgs(args) == Call("parse_known_args", args, TRUE, FALSE, TRUE)

BootstrapParse(args) == Call("bootstrap_parse", args, FALSE, FALSE, FALSE)

Next ==
    \/ \E option \in OptionUniverse : AppendOption(option)
    \/ \E new \in ExtendUniverse : ExtendOptions(new)
    \/ \E path \in ConfigPaths : AddConfig(path)
    \/ \E args \in ArgvUniverse : ParseArgs(args)
    \/ \E args \in ArgvUniverse : ParseKnownArgs(args)
    \/ \E args \in ArgvUniverse : BootstrapParse(args)

Spec == Init /\ [][Next]_vars

(* Option.from_config on its own: every declared option against every file *)
InitFromConfig ==
    /\ InitResolver
    /\ def_cfg_loc = NoneV
    /\ fc_option \in FromConfigOptions
    /\ fc_config \in FromConfigConfigs
    /\ fc_result = NoOutcome

FromConfig ==
    /\ fc_result = NoOutcome
    /\ fc_result' = from_config(fc_option, fc_config)
    /\ UNCHANGED <<fc_option, fc_config, resolver_vars>>

NextFromConfig == FromConfig

SpecFromConfig == InitFromConfig /\ [][NextFromConfig]_vars

----------------------------------------------------------------------------
(* What the properties below speak of *)

Declared == SeqToSet(options)

Called == call # NoCall

Returned == outcome.t = "returned"

Raised(cls) == outcome.t = "raise" /\ outcome.cls = cls

HasFlag(o) == Len(o.options) > 0

ConfigOnly(o) == Len(o.args) = 0 /\ Len(o.options) = 0

Required(o) == o.required = True

(* the positions of the option's flag on the command line *)
GivenAt(o) == {i \in 1..Len(call.args) : call.args[i] \in SeqToSet(o.options)}

Given(o) == GivenAt(o) # {}

(* the value the command line gives the option: the tokens after its flag,   *)
(* each converted by the option's type, as a list when the option has nargs  *)
CommandLineValue(o) ==
    LET i == CHOOSE j \in GivenAt(o) : \A k \in GivenAt(o) : k <= j
        n == ArgRun(call.args, i + 1)
        conv(raw) == IF o.type = NoneV THEN StrV(raw) ELSE CallType(o.type, StrV(raw))
    IN IF o.nargs = NoneV THEN conv(call.args[i + 1])
       ELSE ListV([j \in 1..n |-> conv(call.args[i + j])])

(* the config paths of the option that a config mapping has *)
PresentPaths(o, cfg) ==
    {i \in 1..Len(o.config_paths) : <<o.config_paths[i][1], o.config_paths[i][2]>> \in DOMAIN cfg}

(* the files of the latest call have one of the option's config paths *)
InFile(o) == PresentPaths(o, config) # {}

(* the namespace keys of the option *)
Keys(o) ==
    IF ConfigOnly(o) THEN {Join(<<"_">>, o.config_paths[i]) : i \in 1..Len(o.config_paths)}
    ELSE {OptionalDest(o.options)}

(* every key of the option holds the value *)
ResolvedTo(o, value) ==
    \A k \in Keys(o) : k \in DOMAIN outcome.namespace /\ outcome.namespace[k] = value

(* the exception raised is the missing-required error of this option *)
RaisedMissing(o) ==
    Raised("MissingConfigArgumentError") /\ outcome.msg = MissingConfigArgumentError(o).msg

(* the exception raised names this option: its missing-required error, or    *)
(* the flag parser's exit for one of its flags                               *)
RaisedFor(o) ==
    \/ RaisedMissing(o)
    \/ Raised("SystemExit") /\ outcome.msg.args[1] \in SeqToSet(o.options)

(* the value, or each element of a list, is one of the option's choices *)
Allowed(o, value) ==
    IF value.t = "list" THEN \A i \in 1..Len(value.l) : InList(value.l[i], o.choices)
    ELSE InList(value, o.choices)

(* the primary config file of the latest call; None when there is none *)
Primary == outcome.namespace[ConfigDest]

(* the additional config files, in reading order, that have the key *)
ExtrasWith(key) ==
    {i \in 1..Len(additional_configs) :
        additional_configs[i] \in DOMAIN FileSystem /\ key \in DOMAIN FileSystem[additional_configs[i]]}

IsPrefix(a, b) == Len(a) <= Len(b) /\ SubSeq(b, 1, Len(a)) = a

----------------------------------------------------------------------------
(* C1: for an option with a flag and a config path, the returned namespace   *)
(* holds the command-line value when the flag is given, else the decoded     *)
(* file value when the files have one of its paths, else the declared        *)
(* default; this for parse_args, parse_known_args and bootstrap_parse.       *)
C1_Precedence ==
    \A o \in Declared :
        (HasFlag(o) /\ Len(o.config_paths) > 0 /\ Returned) =>
            ResolvedTo(o, IF Given(o) THEN CommandLineValue(o)
                          ELSE IF InFile(o) THEN from_config(o, config)
                          ELSE o.default)

(* the command line replaces a list read from the file *)
C1_Witness ==
    /\ OptN \in Declared /\ Returned /\ Given(OptN) /\ InFile(OptN)
    /\ from_config(OptN, config) = ListV(<<IntV(1), IntV(2)>>)
    /\ ResolvedTo(OptN, ListV(<<IntV(2)>>))

(* C2: a required option whose flag is given, with no config path in the     *)
(* files: the call never raises for this option, a call that returns holds   *)
(* the command-line value, and with nothing else declared or given the call  *)
(* returns.                                                                  *)
C2_RequiredFromFlag ==
    \A o \in Declared :
        (Called /\ Required(o) /\ HasFlag(o) /\ ~InFile(o) /\ Given(o)) =>
            /\ ~RaisedFor(o)
            /\ Returned => ResolvedTo(o, CommandLineValue(o))
            /\ (options = <<o>> /\ Len(call.args) = 2) => Returned

C2_Witness ==
    /\ OptReq \in Declared /\ ~InFile(OptReq) /\ Given(OptReq)
    /\ Returned /\ ResolvedTo(OptReq, StrV(<<"c">>))

(* C3: a required option whose value is in the config file and whose flag is *)
(* not given: the call does not raise for this option, and a call that       *)
(* returns holds the file value.                                             *)
C3_RequiredFromFile ==
    \A o \in Declared :
        (Called /\ Required(o) /\ InFile(o) /\ ~Given(o)) =>
            /\ ~RaisedFor(o)
            /\ Returned => ResolvedTo(o, from_config(o, config))

(* C4: a required option with no config path in the files and no flag given, *)
(* alone in the parser and with an empty command line: the call raises the   *)
(* missing-required error that names the option's config paths.              *)
C4_MissingRequiredRaised ==
    \A o \in Declared :
        (Called /\ Required(o) /\ ~InFile(o) /\ options = <<o>> /\ call.args = <<>>) =>
            RaisedMissing(o)

(* C6: self.options never holds two equal options, an append or extend only  *)
(* adds at the end (what was there stays, in its order), and a parse         *)
(* registers each declared option that has a flag exactly once.              *)
C6_NoDuplicateOptions ==
    [][/\ \A i, j \in 1..Len(options') : i # j => options'[i] # options'[j]
       /\ IsPrefix(options, options')
       /\ ~Raised("ArgumentError")'
       /\ Len(parser'.actions) > 0 =>
            \A o \in SeqToSet(options') :
                HasFlag(o) => Cardinality({a \in 1..Len(parser'.actions) :
                                  parser'.actions[a].option_strings = o.args \o o.options}) = 1
      ]_vars

(* an append or extend has just skipped an option that was already there *)
C6_Witness == skipped > 0 /\ Len(options) > 0

(* C7: an option with neither positional nor flag names is not registered    *)
(* with the flag parser, and a call that returns holds, under section_key    *)
(* for each of its config paths, the value read from the config files (or    *)
(* the default), whatever the command line.                                  *)
C7_ConfigOnlyRecorded ==
    \A o \in Declared :
        ConfigOnly(o) =>
            /\ Len(parser.actions) > 0 =>
                 /\ Len(parser.actions) = 1 + Cardinality({i \in 1..Len(options) : ~ConfigOnly(options[i])})
                 /\ \A a \in 1..Len(parser.actions) : parser.actions[a].dest \notin Keys(o)
            /\ Returned => ResolvedTo(o, from_config(o, config))

C7_Witness ==
    /\ OptH \in Declared /\ Returned /\ Len(call.args) > 0
    /\ Cardinality(Keys(OptH)) = 2
    /\ ResolvedTo(OptH, StrV(<<"t">>))

C9_AlwaysAllowed ==
    \A o \in Declared :
        (o.choices # NoneV /\ Returned) =>
            \A k \in Keys(o) : Allowed(o, outcome.namespace[k])

(* C9 as amended: in a call that returns, a value that came from the command *)
(* line or from the config files is one of the choices (each element of a    *)
(* list); a file value that is not makes the call raise the config error.    *)
C9_AllowedUnlessDefault ==
    \A o \in Declared :
        (o.choices # NoneV /\ Called) =>
            /\ (Returned /\ (Given(o) \/ InFile(o))) =>
                   \A k \in Keys(o) : Allowed(o, outcome.namespace[k])
            /\ (InFile(o) /\ ~Allowed(o, IF o.nargs = NoneV
                                         THEN _get_value(o, _read_config_paths(o, config).val)
                                         ELSE from_config([o EXCEPT !.choices = NoneV], config))) =>
                   Raised("ConfigArgumentError")

C9_Witness ==
    /\ OptCh \in Declared /\ Returned /\ InFile(OptCh) /\ ~Given(OptCh)
    /\ ResolvedTo(OptCh, StrV(<<"a">>))

----------------------------------------------------------------------------
(* Option.from_config on its own (SpecFromConfig) *)

FromConfigDone == fc_result # NoOutcome

(* the first config path of fc_option that fc_config has *)
FirstPath ==
    LET i == CHOOSE j \in PresentPaths(fc_option, fc_config) :
                 \A k \in PresentPaths(fc_option, fc_config) : j <= k
    IN fc_option.config_paths[i]

(* C5: for an option with nargs '+' (no type, no choices) and an empty       *)
(* string at its config path, from_config raises ConfigArgumentError.        *)
C5_EmptyOneOrMoreRaises ==
    (/\ FromConfigDone
     /\ fc_option.nargs = StrV(<<"+">>) /\ fc_option.type = NoneV /\ fc_option.choices = NoneV
     /\ PresentPaths(fc_option, fc_config) # {}
     /\ fc_config[<<FirstPath[1], FirstPath[2]>>] = <<>>) =>
        (IsRaise(fc_result) /\ fc_result.cls = "ConfigArgumentError")

(* C10: from_config uses the value at the first declared path that is        *)
(* present, an empty string included: the result is what the option reads   *)
(* from a file that has that key alone; the default, or the missing-required *)
(* marker, is returned exactly when no declared path is present.             *)
C10_FirstPresentPath ==
    FromConfigDone =>
        IF PresentPaths(fc_option, fc_config) = {}
        THEN fc_result = IF Required(fc_option) THEN MissingConfigArgumentError(fc_option)
                         ELSE fc_option.default
        ELSE /\ fc_result = from_config(fc_option,
                                        [p \in {<<FirstPath[1], FirstPath[2]>>} |-> fc_config[p]])
             /\ ~IsMissing(fc_result)
             /\ fc_result # fc_option.default

(* both paths are present with different values, the first one empty *)
C10_Witness ==
    /\ FromConfigDone
    /\ fc_option.config_paths = <<<<SecT, KeyK>>, <<SecS, KeyK>>>>
    /\ fc_option.nargs = NoneV /\ fc_option.type = NoneV /\ fc_option.choices = NoneV
    /\ DOMAIN fc_config = {<<SecS, KeyK>>, <<SecT, KeyK>>}
    /\ fc_config[<<SecT, KeyK>>] = <<>> /\ fc_config[<<SecS, KeyK>>] = <<"a">>
    /\ fc_result = StrV(<<>>)

====
